---- MODULE Spec2Model ----
(***************************************************************************)
(* A model of jsonrpc-demo-rs: the JSON value type with its serializer and *)
(* recursive-descent parser (src/src/json.rs) and the JSON-RPC 2.0 line    *)
(* server built on it (src/src/main.rs).                                   *)
(*                                                                         *)
(* Text is a sequence of bytes (0..255), as the parser works on            *)
(* s.as_bytes().  Positions are 0-based as in the source: position i       *)
(* denotes the element s[i + 1] of the TLA+ sequence.                      *)
(*                                                                         *)
(* Number values are modelled on the integers, the doubles on which the    *)
(* arithmetic of the method handlers is exact; the number texts that occur *)
(* in the inputs are integer literals.                                     *)
(***************************************************************************)
EXTENDS Integers, Sequences, FiniteSets, TLC

(***************************************************************************)
(* Bounds of the model.                                                    *)
(***************************************************************************)
\* the number of input lines a client sends on the connection
MaxLines == 2
\* the number of elements of a batch array
MaxBatch == 2
\* the number of bytes of a generated string value or object key
MaxStrLen == 2
\* the number of elements of a generated array or members of an object
MaxElems == 2

(***************************************************************************)
(* Bytes and byte-string literals.                                         *)
(***************************************************************************)
\* the printable ASCII characters, code 32 (space) to 126 (~), in code order
\* (code 96 is named, as the string syntax cannot hold it)
Printable ==
    <<" ", "!", "\"", "#", "$", "%", "&", "'", "(", ")", "*", "+", ",", "-", ".", "/">> \o
    <<"0", "1", "2", "3", "4", "5", "6", "7", "8", "9", ":", ";", "<", "=", ">", "?">> \o
    <<"@", "A", "B", "C", "D", "E", "F", "G", "H", "I", "J", "K", "L", "M", "N", "O">> \o
    <<"P", "Q", "R", "S", "T", "U", "V", "W", "X", "Y", "Z", "[", "\\", "]", "^", "_">> \o
    <<"(backtick)", "a", "b", "c", "d", "e", "f", "g", "h", "i", "j", "k", "l", "m", "n", "o">> \o
    <<"p", "q", "r", "s", "t", "u", "v", "w", "x", "y", "z", "{", "|", "}", "~">>

\* the byte value of a printable ASCII character, as in a b'c' literal
Ord(c) == 31 + (CHOOSE k \in 1..Len(Printable) : Printable[k] = c)

\* the bytes of a literal given as a tuple of characters, as in b"..." / "..."
B(t) == [k \in 1..Len(t) |-> Ord(t[k])]

\* the concatenation of a sequence of byte strings
RECURSIVE Concat(_)
Concat(ss) == IF ss = <<>> THEN <<>> ELSE Head(ss) \o Concat(Tail(ss))

\* v.join(sep) on a sequence of byte strings
RECURSIVE join(_, _)
join(ss, sep) ==
    IF ss = <<>> THEN <<>>
    ELSE IF Len(ss) = 1 THEN ss[1]
    ELSE ss[1] \o sep \o join(Tail(ss), sep)

\* haystack.starts_with(needle) on byte strings
starts_with(s, p) == Len(p) <= Len(s) /\ SubSeq(s, 1, Len(p)) = p

QUOTE == 34
BACKSLASH == 92
\* the bytes that u8::is_ascii_whitespace accepts: space, \t, \n, \x0C, \r
AsciiWhitespace == {32, 9, 10, 12, 13}

(***************************************************************************)
(* The Json value type.                                                    *)
(***************************************************************************)
Null == [t |-> "Null"]
Bool(b) == [t |-> "Bool", b |-> b]
Number(n) == [t |-> "Number", n |-> n]
String(s) == [t |-> "String", s |-> s]
Array(a) == [t |-> "Array", a |-> a]
\* an Object holds a sequence of <<key, value>> pairs, in stored order
Object(o) == [t |-> "Object", o |-> o]

(***************************************************************************)
(* escape and stringify.                                                   *)
(***************************************************************************)
\* an uppercase hexadecimal digit, as format!("{:X}") writes it
HexDigitUpper(d) == IF d < 10 THEN 48 + d ELSE 55 + d

\* format!("\\u{:04X}", c) for a byte c
format_u04X(c) ==
    <<BACKSLASH, Ord("u"), HexDigitUpper(0), HexDigitUpper(0),
      HexDigitUpper(c \div 16), HexDigitUpper(c % 16)>>

\* the match arm of escape for one byte
escape_byte(c) ==
    IF c = QUOTE \/ c = BACKSLASH THEN <<BACKSLASH, c>>
    ELSE IF c = 8 THEN B(<<"\\", "b">>)
    ELSE IF c = 12 THEN B(<<"\\", "f">>)
    ELSE IF c = 10 THEN B(<<"\\", "n">>)
    ELSE IF c = 13 THEN B(<<"\\", "r">>)
    ELSE IF c = 9 THEN B(<<"\\", "t">>)
    ELSE IF c \in 0..31 THEN format_u04X(c)
    ELSE <<c>>

escape(s) == <<QUOTE>> \o Concat([k \in 1..Len(s) |-> escape_byte(s[k])]) \o <<QUOTE>>

\* the decimal digits of a natural number
RECURSIVE Digits(_)
Digits(n) == IF n < 10 THEN <<48 + n>> ELSE Digits(n \div 10) \o <<48 + (n % 10)>>

\* f64::to_string on an integral value: no fractional part, '-' for negatives
f64_to_string(n) == IF n < 0 THEN <<Ord("-")>> \o Digits(-n) ELSE Digits(n)

RECURSIVE stringify(_)
stringify(j) ==
    CASE j.t = "Null" -> B(<<"n", "u", "l", "l">>)
      [] j.t = "Bool" -> IF j.b THEN B(<<"t", "r", "u", "e">>) ELSE B(<<"f", "a", "l", "s", "e">>)
      [] j.t = "Number" -> f64_to_string(j.n)
      [] j.t = "String" -> escape(j.s)
      [] j.t = "Array" ->
            B(<<"[">>) \o join([k \in 1..Len(j.a) |-> stringify(j.a[k])], B(<<",">>)) \o B(<<"]">>)
      [] j.t = "Object" ->
            B(<<"{">>)
            \o join([k \in 1..Len(j.o) |->
                        <<QUOTE>> \o j.o[k][1] \o <<QUOTE>> \o B(<<":">>) \o stringify(j.o[k][2])],
                    B(<<",">>))
            \o B(<<"}">>)

(***************************************************************************)
(* The parser.  A parsing operator takes the input s and the cursor i and  *)
(* returns Ok(value, new cursor), Err(position, reason) or Panic(reason).  *)
(***************************************************************************)
Ok(val, i) == [ok |-> TRUE, val |-> val, i |-> i]
Err(pos, reason) == [ok |-> FALSE, panic |-> FALSE, pos |-> pos, reason |-> reason]
\* an unreachable!() or a failed unwrap(): the thread panics
Panic(reason) == [ok |-> FALSE, panic |-> TRUE, pos |-> 0, reason |-> reason]

\* Option<u8>::None of cur
NoByte == -1

cur(s, i) == IF i < Len(s) THEN s[i + 1] ELSE NoByte

\* str::is_char_boundary: the start, the end, or a byte that is no UTF-8 continuation byte
is_char_boundary(s, k) ==
    k = 0 \/ k = Len(s) \/ (k < Len(s) /\ s[k + 1] \notin 128..191)

\* self.s.get(self.i..self.i + n): None out of range or off a character boundary
ahead(s, i, n) ==
    IF i + n <= Len(s) /\ is_char_boundary(s, i) /\ is_char_boundary(s, i + n)
    THEN [some |-> TRUE, v |-> SubSeq(s, i + 1, i + n)]
    ELSE [some |-> FALSE, v |-> <<>>]

error_unexpected(s, i) ==
    IF cur(s, i) # NoByte THEN Err(i, "unexpected char") ELSE Err(i, "unexpected EOF")

RECURSIVE skip_whitespace(_, _)
skip_whitespace(s, i) ==
    IF cur(s, i) \in AsciiWhitespace THEN skip_whitespace(s, i + 1) ELSE i

parse_identifier(s, i, word, val) ==
    IF starts_with(SubSeq(s, i + 1, Len(s)), word)
    THEN Ok(val, i + Len(word))
    ELSE error_unexpected(s, i)

\* the bytes of b"0123456789.-+eE"
NumberClass == (48..57) \cup {Ord("."), Ord("-"), Ord("+"), Ord("e"), Ord("E")}

\* the value of a non-empty run of decimal digits
RECURSIVE DecValue(_)
DecValue(ds) ==
    IF Len(ds) = 1 THEN ds[1] - 48
    ELSE 10 * DecValue(SubSeq(ds, 1, Len(ds) - 1)) + (ds[Len(ds)] - 48)

AllDigits(ds) == Len(ds) > 0 /\ \A k \in 1..Len(ds) : ds[k] \in 48..57

\* str::parse::<f64> on the integer literals: an optional sign and decimal digits
\* (leading zeros allowed).  Every other text over the digits and signs is
\* rejected, as by the library; texts with '.', 'e' or 'E' do not occur in the inputs.
f64_from_str(text) ==
    IF AllDigits(text) THEN [ok |-> TRUE, n |-> DecValue(text)]
    ELSE IF Len(text) > 1 /\ text[1] = Ord("-") /\ AllDigits(Tail(text))
    THEN [ok |-> TRUE, n |-> 0 - DecValue(Tail(text))]
    ELSE IF Len(text) > 1 /\ text[1] = Ord("+") /\ AllDigits(Tail(text))
    THEN [ok |-> TRUE, n |-> DecValue(Tail(text))]
    ELSE [ok |-> FALSE, n |-> 0]

\* the cursor after the greedy run of parse_number
RECURSIVE number_run_end(_, _)
number_run_end(s, i) ==
    IF cur(s, i) \in NumberClass THEN number_run_end(s, i + 1) ELSE i

\* parse_number: s.parse().map(Json::Number).or_else(|e| self.error(..)) at the end of the run
number_result(r, end) == IF r.ok THEN Ok(Number(r.n), end) ELSE Err(end, "invalid float literal")

parse_number(s, i) ==
    number_result(f64_from_str(SubSeq(s, i + 1, number_run_end(s, i))), number_run_end(s, i))

\* the bytes that follow a backslash in a two-character escape
SimpleEscapes ==
    {QUOTE, BACKSLASH, Ord("/"), Ord("b"), Ord("f"), Ord("n"), Ord("r"), Ord("t")}

\* deescape returns the byte an escape letter denotes; -1 stands for unreachable!()
deescape(c) ==
    IF c = QUOTE THEN QUOTE
    ELSE IF c = BACKSLASH THEN BACKSLASH
    ELSE IF c = Ord("/") THEN Ord("/")
    ELSE IF c = Ord("b") THEN 8
    ELSE IF c = Ord("f") THEN 12
    ELSE IF c = Ord("n") THEN 10
    ELSE IF c = Ord("r") THEN 13
    ELSE IF c = Ord("t") THEN 9
    ELSE -1

\* the value of a hexadecimal digit, -1 for any other byte
HexVal(c) ==
    IF c \in 48..57 THEN c - 48
    ELSE IF c \in 65..70 THEN c - 55
    ELSE IF c \in 97..102 THEN c - 87
    ELSE -1

RECURSIVE HexValue(_)
HexValue(hs) ==
    IF Len(hs) = 1 THEN HexVal(hs[1])
    ELSE 16 * HexValue(SubSeq(hs, 1, Len(hs) - 1)) + HexVal(hs[Len(hs)])

\* u16::from_str_radix(hex, 16) on a four-byte slice: an optional '+', then
\* one or more hexadecimal digits
u16_from_str_radix(hex) ==
    LET ds == IF Len(hex) > 0 /\ hex[1] = Ord("+") THEN Tail(hex) ELSE hex
    IN  IF Len(ds) > 0 /\ \A k \in 1..Len(ds) : HexVal(ds[k]) >= 0
        THEN [ok |-> TRUE, n |-> HexValue(ds)]
        ELSE [ok |-> FALSE, n |-> 0]

\* char::encode_utf8
encode_utf8(cp) ==
    IF cp < 128 THEN <<cp>>
    ELSE IF cp < 2048 THEN <<192 + (cp \div 64), 128 + (cp % 64)>>
    ELSE IF cp < 65536
    THEN <<224 + (cp \div 4096), 128 + ((cp \div 64) % 64), 128 + (cp % 64)>>
    ELSE <<240 + (cp \div 262144), 128 + ((cp \div 4096) % 64),
           128 + ((cp \div 64) % 64), 128 + (cp % 64)>>

IsSurrogate(n) == n >= 55296 /\ n <= 57343

\* push_utf16 on the code units us (one unit, or two for a surrogate pair):
\* the bytes to append, or the decode failure
push_utf16(us) ==
    IF Len(us) = 1 /\ ~IsSurrogate(us[1]) THEN [ok |-> TRUE, v |-> encode_utf8(us[1])]
    ELSE IF Len(us) = 2 /\ us[1] \in 55296..56319 /\ us[2] \in 56320..57343
    THEN [ok |-> TRUE,
          v |-> encode_utf8(65536 + (us[1] - 55296) * 1024 + (us[2] - 56320))]
    ELSE [ok |-> FALSE, v |-> <<>>]

\* std::str::from_utf8 accepts v (the well-formed sequences of up to four bytes)
RECURSIVE is_utf8(_)
is_utf8(v) ==
    IF v = <<>> THEN TRUE
    ELSE LET b == v[1]
             n == IF b < 128 THEN 1
                  ELSE IF b \in 194..223 THEN 2
                  ELSE IF b \in 224..239 THEN 3
                  ELSE IF b \in 240..244 THEN 4
                  ELSE 0
         IN  /\ n > 0
             /\ Len(v) >= n
             /\ \A k \in 2..n : v[k] \in 128..191
             /\ (b = 224 => v[2] >= 160)
             /\ (b = 237 => v[2] <= 159)
             /\ (b = 240 => v[2] >= 144)
             /\ (b = 244 => v[2] <= 143)
             /\ is_utf8(SubSeq(v, n + 1, Len(v)))

\* parse_string, the \u arm (4): the second unit of a surrogate pair is decoded
\* and the pair pushed; its failure is returned by `?` as push_utf16 built it
unicode_pair(s, i4, n, n1) ==
    IF ~n1.ok THEN error_unexpected(s, i4 - 4)
    ELSE IF push_utf16(<<n, n1.n>>).ok THEN Ok(push_utf16(<<n, n1.n>>).v, i4)
    ELSE Err(0, "decode UTF-16 failed")

\* parse_string, the \u arm (3): a surrogate must be followed by "\u" and four bytes
unicode_second(s, i2, n) ==
    IF ~ahead(s, i2, 2).some \/ ahead(s, i2, 2).v # <<BACKSLASH, Ord("u")>>
    THEN error_unexpected(s, i2)
    ELSE IF ~ahead(s, i2 + 2, 4).some THEN error_unexpected(s, i2 + 2)
    ELSE unicode_pair(s, i2 + 6, n, u16_from_str_radix(ahead(s, i2 + 2, 4).v))

\* parse_string, the \u arm (2): the first unit n, read from the four bytes at i1
unicode_first(s, i1, n) ==
    IF ~n.ok THEN error_unexpected(s, i1)
    ELSE IF n.n < 55296 \/ n.n > 57343
    THEN IF push_utf16(<<n.n>>).ok THEN Ok(push_utf16(<<n.n>>).v, i1 + 4)
         ELSE Err(i1 + 4, "decode UTF-16 failed")
    ELSE unicode_second(s, i1 + 4, n.n)

\* parse_string, the \u arm (1), entered with the cursor on the 'u': the bytes
\* decoded and the cursor after the escape, or the error
parse_string_unicode(s, iu) ==
    IF ~ahead(s, iu + 1, 4).some THEN error_unexpected(s, iu + 1)
    ELSE unicode_first(s, iu + 1, u16_from_str_radix(ahead(s, iu + 1, 4).v))

RECURSIVE parse_string_loop(_, _, _)

\* parse_string: the loop goes on after a \u escape decoded to u
string_after_unicode(s, v, u) ==
    IF u.ok THEN parse_string_loop(s, u.i, v \o u.val) ELSE u

\* String::from_utf8(v).unwrap() at the end of parse_string
string_result(v, i) == IF is_utf8(v) THEN Ok(v, i) ELSE Panic("from_utf8 unwrap")

\* the while loop of parse_string, with the cursor i and the bytes v decoded so far
parse_string_loop(s, i, v) ==
    LET c == cur(s, i)
        c2 == cur(s, i + 1)
    IN  IF c = NoByte THEN string_result(v, i)
        ELSE IF c = QUOTE THEN string_result(v, i + 1)
        ELSE IF c = BACKSLASH
        THEN IF c2 = NoByte THEN parse_string_loop(s, i + 1, v)
             ELSE IF c2 \in SimpleEscapes
             THEN IF deescape(c2) = -1 THEN Panic("unreachable")
                  ELSE parse_string_loop(s, i + 1, Append(v, deescape(c2)))
             ELSE IF c2 = Ord("u")
             THEN string_after_unicode(s, v, parse_string_unicode(s, i + 1))
             ELSE error_unexpected(s, i + 1)
        ELSE parse_string_loop(s, i + 1, Append(v, c))

\* parse_string steps over one byte, whatever it is, and runs the loop
parse_string(s, i) == parse_string_loop(s, i + 1, <<>>)

RECURSIVE parse_value(_, _)
RECURSIVE parse_array_loop(_, _, _, _)
RECURSIVE parse_object_loop(_, _, _, _)

\* parse_array: arr.push(self.parse_value()?); first = false
array_push(s, arr, r) ==
    IF r.ok THEN parse_array_loop(s, r.i, Append(arr, r.val), FALSE) ELSE r

\* parse_array: the loop body after its first skip_whitespace, the cursor at i1
array_item(s, i1, arr, first) ==
    IF cur(s, i1) = Ord("]") THEN Ok(Array(arr), i1 + 1)
    ELSE IF first THEN array_push(s, arr, parse_value(s, i1))
    ELSE IF cur(s, i1) # Ord(",") THEN error_unexpected(s, i1)
    ELSE array_push(s, arr, parse_value(s, skip_whitespace(s, i1 + 1)))

\* the while loop of parse_array
parse_array_loop(s, i, arr, first) ==
    IF cur(s, i) = NoByte THEN error_unexpected(s, i)
    ELSE array_item(s, skip_whitespace(s, i), arr, first)

parse_array(s, i) == parse_array_loop(s, i + 1, <<>>, TRUE)

\* parse_object: obj.push((key, val)); first = false
object_push(s, obj, key, val) ==
    IF val.ok THEN parse_object_loop(s, val.i, Append(obj, <<key, val.val>>), FALSE)
    ELSE val

\* parse_object: the ':' at i3 after the key, then the value
object_colon(s, i3, obj, key) ==
    IF cur(s, i3) # Ord(":") THEN error_unexpected(s, i3)
    ELSE object_push(s, obj, key, parse_value(s, skip_whitespace(s, i3 + 1)))

\* parse_object: let key = self.parse_string()?
object_key(s, obj, key) ==
    IF key.ok THEN object_colon(s, skip_whitespace(s, key.i), obj, key.val) ELSE key

\* parse_object: the loop body after its first skip_whitespace, the cursor at i1
object_item(s, i1, obj, first) ==
    IF cur(s, i1) = Ord("}") THEN Ok(Object(obj), i1 + 1)
    ELSE IF first THEN object_key(s, obj, parse_string(s, i1))
    ELSE IF cur(s, i1) # Ord(",") THEN error_unexpected(s, i1)
    ELSE object_key(s, obj, parse_string(s, skip_whitespace(s, i1 + 1)))

\* the while loop of parse_object
parse_object_loop(s, i, obj, first) ==
    IF cur(s, i) = NoByte THEN error_unexpected(s, i)
    ELSE object_item(s, skip_whitespace(s, i), obj, first)

parse_object(s, i) == parse_object_loop(s, i + 1, <<>>, TRUE)

\* Ok(Json::String(self.parse_string()?))
string_value(r) == IF r.ok THEN Ok(String(r.val), r.i) ELSE r

parse_value(s, i) ==
    LET c == cur(s, i)
    IN  IF c = Ord("n") THEN parse_identifier(s, i, B(<<"n", "u", "l", "l">>), Null)
        ELSE IF c = Ord("t") THEN parse_identifier(s, i, B(<<"t", "r", "u", "e">>), Bool(TRUE))
        ELSE IF c = Ord("f")
        THEN parse_identifier(s, i, B(<<"f", "a", "l", "s", "e">>), Bool(FALSE))
        ELSE IF c \in 48..57 \/ c = Ord("-") THEN parse_number(s, i)
        ELSE IF c = QUOTE THEN string_value(parse_string(s, i))
        ELSE IF c = Ord("[") THEN parse_array(s, i)
        ELSE IF c = Ord("{") THEN parse_object(s, i)
        ELSE error_unexpected(s, i)

\* parse_with_trailing_whitespace after the value: the rest must be white space
trailing_whitespace(s, val, i1) ==
    IF cur(s, i1) = NoByte THEN Ok(val, i1)
    ELSE Err(i1, "not end with trailing whitespace")

\* parse_with_trailing_whitespace: let j = parser.parse_value()?
value_then_trailing(s, r) ==
    IF r.ok THEN trailing_whitespace(s, r.val, skip_whitespace(s, r.i)) ELSE r

parse_with_trailing_whitespace(s) ==
    value_then_trailing(s, parse_value(s, skip_whitespace(s, 0)))

(***************************************************************************)
(* The JSON-RPC layer.  A handler returns what it writes to its writer,    *)
(* whether the request is a notification, and which method handler ran.    *)
(***************************************************************************)
S_jsonrpc == B(<<"j", "s", "o", "n", "r", "p", "c">>)
S_2_0 == B(<<"2", ".", "0">>)
S_error == B(<<"e", "r", "r", "o", "r">>)
S_code == B(<<"c", "o", "d", "e">>)
S_message == B(<<"m", "e", "s", "s", "a", "g", "e">>)
S_id == B(<<"i", "d">>)
S_result == B(<<"r", "e", "s", "u", "l", "t">>)
S_method == B(<<"m", "e", "t", "h", "o", "d">>)
S_params == B(<<"p", "a", "r", "a", "m", "s">>)
S_add == B(<<"a", "d", "d">>)
S_subtract == B(<<"s", "u", "b", "t", "r", "a", "c", "t">>)
Msg_parse_error == B(<<"P", "a", "r", "s", "e", " ", "e", "r", "r", "o", "r">>)
Msg_invalid_request ==
    B(<<"I", "n", "v", "a", "l", "i", "d", " ", "R", "e", "q", "u", "e", "s", "t">>)
Msg_method_not_found ==
    B(<<"M", "e", "t", "h", "o", "d", " ", "n", "o", "t", " ", "f", "o", "u", "n", "d">>)
Msg_invalid_parameters ==
    B(<<"I", "n", "v", "a", "l", "i", "d", " ", "m", "e", "t", "h", "o", "d", " ",
        "p", "a", "r", "a", "m", "e", "t", "e", "r">>)

\* what a handler did: the bytes written, the is-notification flag it returns,
\* and the method handler it called ("none", "add" or "subtract")
Written(bytes, notify, handler) == [out |-> bytes, notify |-> notify, handler |-> handler]

\* the text response_error writes
response_error(code, id, message) ==
    stringify(Object(<<
        <<S_jsonrpc, String(S_2_0)>>,
        <<S_error, Object(<< <<S_code, Number(code)>>, <<S_message, String(message)>> >>)>>,
        <<S_id, id>> >>))

response_invalid_request == response_error(-32600, Null, Msg_invalid_request)

response_invalid_parameters(id) == response_error(-32602, id, Msg_invalid_parameters)

\* a mutant of get: the value of the last pair whose key is key
get_last(kvs, key) ==
    LET hits == {k \in 1..Len(kvs) : kvs[k][1] = key}
    IN  IF hits = {} THEN [some |-> FALSE, v |-> Null]
        ELSE [some |-> TRUE, v |-> kvs[CHOOSE k \in hits : \A h \in hits : k >= h][2]]

\* get: the value of the first pair whose key is key
get(kvs, key) ==
    LET hits == {k \in 1..Len(kvs) : kvs[k][1] = key}
    IN  IF hits = {} THEN [some |-> FALSE, v |-> Null]
        ELSE [some |-> TRUE, v |-> kvs[CHOOSE k \in hits : \A h \in hits : k <= h][2]]

\* the success response of a method handler
response_result(id, result) ==
    stringify(Object(<<
        <<S_jsonrpc, String(S_2_0)>>, <<S_id, id>>, <<S_result, Number(result)>> >>))

\* the for loop of handle_method_add from element k on, with the running sum
RECURSIVE add_loop(_, _, _)
add_loop(args, k, result) ==
    IF k > Len(args) THEN [ok |-> TRUE, result |-> result]
    ELSE IF args[k].t = "Number" THEN add_loop(args, k + 1, result + args[k].n)
    ELSE [ok |-> FALSE, result |-> result]

handle_method_add(kvs, id) ==
    LET p == get(kvs, S_params)
    IN  IF ~p.some \/ p.v.t # "Array" THEN response_invalid_parameters(id)
        ELSE LET r == add_loop(p.v.a, 1, 0)
             IN  IF r.ok THEN response_result(id, r.result)
                 ELSE response_invalid_parameters(id)

\* a mutant of handle_method_subtract: the operands are swapped
handle_method_subtract_swapped(kvs, id) ==
    LET p == get(kvs, S_params)
    IN  IF ~p.some \/ p.v.t # "Array" THEN response_invalid_parameters(id)
        ELSE IF Len(p.v.a) # 2 THEN response_invalid_parameters(id)
        ELSE IF \E k \in 1..2 : p.v.a[k].t # "Number" THEN response_invalid_parameters(id)
        ELSE response_result(id, p.v.a[2].n - p.v.a[1].n)

handle_method_subtract(kvs, id) ==
    LET p == get(kvs, S_params)
    IN  IF ~p.some \/ p.v.t # "Array" THEN response_invalid_parameters(id)
        ELSE IF Len(p.v.a) # 2 THEN response_invalid_parameters(id)
        ELSE IF \E k \in 1..2 : p.v.a[k].t # "Number" THEN response_invalid_parameters(id)
        ELSE response_result(id, p.v.a[1].n - p.v.a[2].n)

\* a mutant of single_method: a missing or non-String method is an Invalid Request
single_method_invalid_request(kvs, id) ==
    LET method == get(kvs, S_method)
    IN  IF ~method.some \/ method.v.t # "String"
        THEN Written(response_invalid_request, FALSE, "none")
        ELSE IF method.v.s = S_add THEN Written(handle_method_add(kvs, id), FALSE, "add")
        ELSE IF method.v.s = S_subtract
        THEN Written(handle_method_subtract(kvs, id), FALSE, "subtract")
        ELSE Written(response_error(-32601, id, Msg_method_not_found), FALSE, "none")

\* handle_single_json, the method check and the dispatch, with the validated id
single_method(kvs, id) ==
    LET method == get(kvs, S_method)
    IN  IF ~method.some \/ method.v.t # "String"
        THEN Written(response_error(-32601, id, Msg_method_not_found), FALSE, "none")
        ELSE IF method.v.s = S_add THEN Written(handle_method_add(kvs, id), FALSE, "add")
        ELSE IF method.v.s = S_subtract
        THEN Written(handle_method_subtract(kvs, id), FALSE, "subtract")
        ELSE Written(response_error(-32601, id, Msg_method_not_found), FALSE, "none")

\* a mutant of single_id: a Null id is an ordinary request id
single_id_null_answered(kvs, id) ==
    IF ~id.some THEN Written(<<>>, TRUE, "none")
    ELSE IF id.v.t \in {"Number", "String", "Null"} THEN single_method(kvs, id.v)
    ELSE Written(response_invalid_request, FALSE, "none")

\* handle_single_json, the id check: id is the result of get(&kvs, "id")
single_id(kvs, id) ==
    IF ~id.some THEN Written(<<>>, TRUE, "none")
    ELSE IF id.v.t \in {"Number", "String"} THEN single_method(kvs, id.v)
    ELSE IF id.v.t = "Null" THEN Written(<<>>, TRUE, "none")
    ELSE Written(response_invalid_request, FALSE, "none")

\* a mutant of handle_single_json: the notification check runs before the jsonrpc check
handle_single_json_id_first(kvs) ==
    LET version == get(kvs, S_jsonrpc)
    IN  IF ~get(kvs, S_id).some \/ get(kvs, S_id).v.t = "Null"
        THEN Written(<<>>, TRUE, "none")
        ELSE IF ~version.some \/ version.v.t # "String"
        THEN Written(response_invalid_request, FALSE, "none")
        ELSE IF version.v.s # S_2_0 THEN Written(response_invalid_request, FALSE, "none")
        ELSE single_id(kvs, get(kvs, S_id))

handle_single_json(kvs) ==
    LET version == get(kvs, S_jsonrpc)
    IN  IF ~version.some \/ version.v.t # "String"
        THEN Written(response_invalid_request, FALSE, "none")
        ELSE IF version.v.s # S_2_0 THEN Written(response_invalid_request, FALSE, "none")
        ELSE single_id(kvs, get(kvs, S_id))

\* one iteration of the for loop of handle_json: what the element writes to res_j
batch_element(e) ==
    IF e.t = "Object" THEN handle_single_json(e.o)
    ELSE Written(response_invalid_request, FALSE, "none")

\* a mutant of batch_append: the comma between two responses is left out
batch_append_no_comma(r, first, res_j) ==
    r \o (IF first THEN B(<<"[">>) ELSE <<>>) \o res_j

\* handle_json, in the for loop: the response res_j of an element that is no
\* notification is appended to res after "[" or ","
batch_append(r, first, res_j) ==
    r \o (IF first THEN B(<<"[">>) ELSE B(<<",">>)) \o res_j

\* a mutant of batch_finish: a batch of notifications is answered by an empty array
batch_finish_empty_array(r, first) ==
    Written((IF first THEN B(<<"[">>) ELSE r) \o B(<<"]">>), FALSE, "none")

\* handle_json, after the for loop: res and "]" are written unless no element answered
batch_finish(r, first) ==
    IF ~first THEN Written(r \o B(<<"]">>), FALSE, "none") ELSE Written(<<>>, TRUE, "none")

\* a mutant of handle_json_single: the empty Array is taken for a batch without
\* answers, that is for a notification
handle_json_single_empty_silent(j) ==
    IF j.t = "Object" THEN handle_single_json(j.o)
    ELSE IF j.t = "Array" THEN Written(<<>>, TRUE, "none")
    ELSE Written(response_invalid_request, FALSE, "none")

\* the arms of handle_json that are no batch: an Object, the empty Array, any other value
handle_json_single(j) ==
    IF j.t = "Object" THEN handle_single_json(j.o)
    ELSE Written(response_invalid_request, FALSE, "none")

\* str::trim on the ASCII white space (U+0009 to U+000D and the space)
TrimSet == (9..13) \cup {32}

RECURSIVE trim_start(_)
trim_start(s) == IF s # <<>> /\ s[1] \in TrimSet THEN trim_start(Tail(s)) ELSE s

RECURSIVE trim_end(_)
trim_end(s) ==
    IF s # <<>> /\ s[Len(s)] \in TrimSet THEN trim_end(SubSeq(s, 1, Len(s) - 1)) ELSE s

trim(s) == trim_end(trim_start(s))

(***************************************************************************)
(* The inputs: the lines a client sends.                                   *)
(***************************************************************************)
\* the sequences over S of length lo to hi
SeqsOf(S, lo, hi) == UNION {[1..n -> S] : n \in lo..hi}

\* the number of elements of a generated params array
MaxParams == 3

\* a member of a request object: absent, or one <<key, value>> pair
Member(key, vals) == {<<>>} \cup {<< <<key, v>> >> : v \in vals}

VersionMembers ==
    Member(S_jsonrpc, {String(S_2_0), String(B(<<"1", ".", "0">>)), Number(2)})
IdMembers ==
    Member(S_id, {Null, Number(7), String(B(<<"a">>)), Bool(TRUE), Array(<<>>), Object(<<>>)})
MethodMembers ==
    Member(S_method, {String(S_add), String(S_subtract), String(B(<<"s", "u", "m">>)), Number(5)})
ParamElems == {Number(9), Number(-4), String(B(<<"x">>))}
ParamArrays == {Array(a) : a \in SeqsOf(ParamElems, 0, MaxParams)}
ParamsMembers == Member(S_params, ParamArrays \cup {Object(<<>>), Number(3)})

\* every envelope shape with few params, and every params shape with a valid envelope
RpcRequests ==
    {Object(v \o i \o m \o p) :
        v \in VersionMembers, i \in IdMembers, m \in MethodMembers,
        p \in Member(S_params, {Array(<<Number(9), Number(-4)>>)})}
    \cup
    {Object(<<<<S_jsonrpc, String(S_2_0)>>>> \o i \o m \o p) :
        i \in Member(S_id, {Null, Number(7), String(B(<<"a">>))}),
        m \in Member(S_method, {String(S_add), String(S_subtract)}) \ {<<>>},
        p \in ParamsMembers}

Request(id, method, params) ==
    Object(<<<<S_jsonrpc, String(S_2_0)>>>> \o id \o
           << <<S_method, String(method)>>, <<S_params, Array(params)>> >>)

\* the elements of the generated batches: two answered requests, a request in
\* error, two notifications, an invalid envelope and two values that are no Object
BatchElems ==
    { Request(<< <<S_id, Number(7)>> >>, S_add, <<Number(9), Number(-4)>>),
      Request(<< <<S_id, String(B(<<"a">>))>> >>, S_subtract, <<Number(9), Number(-4)>>),
      Request(<< <<S_id, Number(7)>> >>, S_subtract, <<Number(9)>>),
      Request(<<>>, S_add, <<Number(9)>>),
      Request(<< <<S_id, Null>> >>, B(<<"s", "u", "m">>), <<>>),
      Object(<< <<S_id, Number(7)>> >>),
      Number(1),
      Array(<<Number(1)>>) }

Batches == {Array(a) : a \in SeqsOf(BatchElems, 1, MaxBatch)}

\* lines that are no serialized value: blank lines, malformed and lenient texts,
\* white space around a value, a repeated member
RawLines ==
    { <<>>,
      B(<<" ", " ">>),
      B(<<"{">>),
      B(<<"[", "]">>),
      B(<<"\"", "a", "b", "c">>),
      B(<<"{", "x", "\"", ":", "1", "}">>),
      B(<<"0", "1">>),
      B(<<"1", "-", "1">>),
      B(<<"n", "u", "l", "l", " ", "x">>),
      B(<<" ", "[", " ", "1", " ", ",", " ", "t", "r", "u", "e", " ", "]", " ">>),
      B(<<"[", "1", ",", "]">>) }

\* the lines of the one-line clients
RpcLines == {stringify(j) : j \in RpcRequests \cup Batches} \cup RawLines

\* the lines of the clients that send up to MaxLines lines
SessionLines ==
    { stringify(Request(<< <<S_id, Number(7)>> >>, S_add, <<Number(9), Number(-4)>>)),
      stringify(Request(<<>>, S_add, <<Number(9)>>)),
      stringify(Request(<< <<S_id, String(B(<<"a">>))>> >>, B(<<"s", "u", "m">>), <<>>)),
      stringify(Array(<<Request(<<>>, S_add, <<>>)>>)),
      stringify(Array(<<Number(1), Request(<< <<S_id, Number(7)>> >>, S_add, <<>>)>>)),
      <<>>,
      B(<<"{">>),
      B(<<"[", "]">>),
      B(<<"\"", "a", "b", "c">>),
      B(<<" ", "n", "u", "l", "l", " ">>),
      B(<<"{">>) \o <<195, 169>> \o B(<<"\"", ":", "1", "}">>) }

(***************************************************************************)
(* The state of one connection served by handle_client.                    *)
(***************************************************************************)
VARIABLES
    input,      \* the lines the client has sent and handle_client has not read yet
    pc,         \* the position of handle_client
    line,       \* handle_client: the trimmed line in hand
    parsed,     \* the result of Json::parse_with_trailing_whitespace on the line
    js,         \* handle_json: the batch elements the for loop has not visited yet
    res,        \* handle_json: the buffer res of the batch
    is_first,   \* handle_json: the flag is_first of the batch
    is_notify,  \* handle_client: the flag is_notify of the line
    out,        \* every byte written to the connection so far
    reads,      \* history: the lines read, each with the length of out at its read
    visited,    \* history: the batch elements the for loop has visited, in order
    handlers,   \* history: the method handlers called for the line in hand
    rt_v,       \* the Json value of a stringify/parse round trip
    io_err,     \* a read or a write on the connection has returned an error
    incoming,   \* main: the connections that listener.incoming() has not yielded yet
    stream      \* the connection handle_client serves: its client, and whether
                \* the client closes it after its last line or leaves it open

vars == <<input, pc, line, parsed, js, res, is_first, is_notify, out, reads, visited,
          handlers, rt_v, io_err, incoming, stream>>

\* the stream of the client c, which closes the connection after its last
\* line (closes) or sends nothing more and leaves it open
Connection(c, closes) == [client |-> c, closes |-> closes]

\* no parse result yet
NoResult == [ok |-> FALSE, panic |-> FALSE, pos |-> 0, reason |-> "none"]

InitWith(lines) ==
    /\ input = lines
    /\ pc = "read"
    /\ line = <<>>
    /\ parsed = NoResult
    /\ js = <<>>
    /\ res = <<>>
    /\ is_first = TRUE
    /\ is_notify = FALSE
    /\ out = <<>>
    /\ reads = <<>>
    /\ visited = <<>>
    /\ handlers = <<>>
    /\ rt_v = Null
    /\ io_err = FALSE
    /\ incoming = <<>>
    /\ stream = Connection(0, TRUE)

\* a client that sends up to MaxLines lines and closes the connection
Init == \E lines \in SeqsOf(SessionLines, 0, MaxLines) : InitWith(lines)

\* a client that sends one line and closes the connection
InitRpc == \E l \in RpcLines : InitWith(<<l>>)

\* a mutant of ReadLine: the next line is read before the newline of the last
\* response is written
ReadLine_pipelined ==
    /\ pc \in {"read", "finish"}
    /\ input # <<>>
    /\ input' = Tail(input)
    /\ line' = trim(Head(input))
    /\ reads' = Append(reads, [line |-> trim(Head(input)), at |-> Len(out)])
    /\ pc' = IF trim(Head(input)) = <<>> THEN "read" ELSE "parse"
    /\ parsed' = NoResult
    /\ is_notify' = FALSE
    /\ visited' = <<>>
    /\ handlers' = <<>>
    /\ UNCHANGED <<js, res, is_first, out, rt_v, io_err,
                   incoming, stream>>

\* handle_client: buf.lines() yields a line; it is trimmed, and skipped when empty
ReadLine ==
    /\ pc = "read"
    /\ input # <<>>
    /\ input' = Tail(input)
    /\ line' = trim(Head(input))
    /\ reads' = Append(reads, [line |-> trim(Head(input)), at |-> Len(out)])
    /\ pc' = IF trim(Head(input)) = <<>> THEN "read" ELSE "parse"
    /\ parsed' = NoResult
    /\ is_notify' = FALSE
    /\ visited' = <<>>
    /\ handlers' = <<>>
    /\ UNCHANGED <<js, res, is_first, out, rt_v, io_err,
                   incoming, stream>>

\* handle_client: the client has closed the connection and buf.lines() ends;
\* handle_client returns Ok(())
ReadEof ==
    /\ pc = "read"
    /\ input = <<>>
    /\ stream.closes
    /\ pc' = "done"
    /\ UNCHANGED <<input, line, parsed, js, res, is_first, is_notify, out, reads, visited,
                   handlers, rt_v, io_err,
                   incoming, stream>>

\* handle_client: Json::parse_with_trailing_whitespace(&line); a panic ends the thread
Parse ==
    /\ pc = "parse"
    /\ parsed' = parse_with_trailing_whitespace(line)
    /\ pc' = IF ~parsed'.ok /\ parsed'.panic THEN "panic" ELSE "handle"
    /\ UNCHANGED <<input, line, js, res, is_first, is_notify, out, reads, visited,
                   handlers, rt_v, io_err,
                   incoming, stream>>

\* handle_client, the Err arm: the Parse error response
ParseErrorResponse ==
    /\ pc = "handle"
    /\ ~parsed.ok
    /\ out' = out \o response_error(-32700, Null, Msg_parse_error)
    /\ is_notify' = FALSE
    /\ pc' = "finish"
    /\ UNCHANGED <<input, line, parsed, js, res, is_first, reads, visited, handlers, rt_v, io_err,
                   incoming, stream>>

IsBatch(j) == j.t = "Array" /\ j.a # <<>>

\* handle_json on an Object, on the empty Array and on any other value that is no batch
HandleSingle ==
    /\ pc = "handle"
    /\ parsed.ok
    /\ ~IsBatch(parsed.val)
    /\ LET w == handle_json_single(parsed.val)
       IN  /\ out' = out \o w.out
           /\ is_notify' = w.notify
           /\ handlers' = IF w.handler = "none" THEN handlers ELSE Append(handlers, w.handler)
    /\ pc' = "finish"
    /\ UNCHANGED <<input, line, parsed, js, res, is_first, reads, visited, rt_v, io_err,
                   incoming, stream>>

\* handle_json on a non-empty Array: res and is_first are set up for the for loop
BatchBegin ==
    /\ pc = "handle"
    /\ parsed.ok
    /\ IsBatch(parsed.val)
    /\ js' = parsed.val.a
    /\ res' = <<>>
    /\ is_first' = TRUE
    /\ pc' = "batch"
    /\ UNCHANGED <<input, line, parsed, is_notify, out, reads, visited, handlers, rt_v, io_err,
                   incoming, stream>>

\* handle_json: one iteration of the for loop
BatchElement ==
    /\ pc = "batch"
    /\ js # <<>>
    /\ LET w == batch_element(Head(js))
       IN  /\ res' = IF w.notify THEN res ELSE batch_append(res, is_first, w.out)
           /\ is_first' = (is_first /\ w.notify)
           /\ handlers' = IF w.handler = "none" THEN handlers ELSE Append(handlers, w.handler)
    /\ visited' = Append(visited, Head(js))
    /\ js' = Tail(js)
    /\ UNCHANGED <<input, pc, line, parsed, is_notify, out, reads, rt_v, io_err,
                   incoming, stream>>

\* handle_json: after the for loop, res and "]" are written unless res is empty
BatchEnd ==
    /\ pc = "batch"
    /\ js = <<>>
    /\ out' = out \o batch_finish(res, is_first).out
    /\ is_notify' = batch_finish(res, is_first).notify
    /\ pc' = "finish"
    /\ UNCHANGED <<input, line, parsed, js, res, is_first, reads, visited, handlers, rt_v, io_err,
                   incoming, stream>>

\* a mutant of WriteNewline: the newline is not written
WriteNewline_missing ==
    /\ pc = "finish"
    /\ ~is_notify
    /\ pc' = "read"
    /\ UNCHANGED <<input, line, parsed, js, res, is_first, is_notify, out, reads, visited,
                   handlers, rt_v, io_err,
                   incoming, stream>>

\* handle_client: the newline after a response
WriteNewline ==
    /\ pc = "finish"
    /\ ~is_notify
    /\ out' = out \o <<10>>
    /\ pc' = "read"
    /\ UNCHANGED <<input, line, parsed, js, res, is_first, is_notify, reads, visited,
                   handlers, rt_v, io_err,
                   incoming, stream>>

\* handle_client: no newline after a notification
SkipNewline ==
    /\ pc = "finish"
    /\ is_notify
    /\ pc' = "read"
    /\ UNCHANGED <<input, line, parsed, js, res, is_first, is_notify, out, reads, visited,
                   handlers, rt_v, io_err,
                   incoming, stream>>

Next ==
    \/ ReadLine
    \/ ReadEof
    \/ Parse
    \/ ParseErrorResponse
    \/ HandleSingle
    \/ BatchBegin
    \/ BatchElement
    \/ BatchEnd
    \/ WriteNewline
    \/ SkipNewline

Spec == Init /\ [][Next]_vars

SpecRpc == InitRpc /\ [][Next]_vars

(***************************************************************************)
(* The round trip of a Json value through stringify and the parser.        *)
(***************************************************************************)
\* the characters of the generated strings: 'a', '"', '\' and the two-byte U+00E9
RtChars == {<<97>>, <<QUOTE>>, <<BACKSLASH>>, <<195, 169>>}

\* the strings of up to MaxStrLen characters without control characters
RtStrings == {Concat(cs) : cs \in SeqsOf(RtChars, 0, MaxStrLen)}

RtScalars ==
    {Null, Bool(TRUE), Bool(FALSE), Number(-12), Number(0), Number(7)}
    \cup {String(str) : str \in RtStrings}

\* the elements and member values of the generated arrays and objects
RtInner ==
    {Null, Number(-12), String(<<97>>), String(<<BACKSLASH>>), Array(<<Bool(TRUE)>>),
     Object(<< <<B(<<"k">>), Array(<<>>)>> >>)}

RtKeys == {<<>>, <<97, 98>>, <<QUOTE>>}

\* the finite Json values stringify is applied to
RtValues ==
    RtScalars
    \cup {Array(a) : a \in SeqsOf(RtInner, 0, MaxElems)}
    \cup {Object(o) : o \in SeqsOf(RtKeys \X RtInner, 0, MaxElems)}

InitRt ==
    /\ rt_v \in RtValues
    /\ pc = "rt_value"
    /\ input = <<>>
    /\ line = <<>>
    /\ parsed = NoResult
    /\ js = <<>>
    /\ res = <<>>
    /\ is_first = TRUE
    /\ is_notify = FALSE
    /\ out = <<>>
    /\ reads = <<>>
    /\ visited = <<>>
    /\ handlers = <<>>
    /\ io_err = FALSE
    /\ incoming = <<>>
    /\ stream = Connection(0, TRUE)

\* v.stringify()
RtStringify ==
    /\ pc = "rt_value"
    /\ line' = stringify(rt_v)
    /\ pc' = "rt_text"
    /\ UNCHANGED <<input, parsed, js, res, is_first, is_notify, out, reads, visited,
                   handlers, rt_v, io_err,
                   incoming, stream>>

\* Json::parse_with_trailing_whitespace on the text of stringify
RtParse ==
    /\ pc = "rt_text"
    /\ parsed' = parse_with_trailing_whitespace(line)
    /\ pc' = "rt_done"
    /\ UNCHANGED <<input, line, js, res, is_first, is_notify, out, reads, visited,
                   handlers, rt_v, io_err,
                   incoming, stream>>

NextRt == RtStringify \/ RtParse

SpecRoundTrip == InitRt /\ [][NextRt]_vars

(***************************************************************************)
(* C2: the round trip.                                                     *)
(***************************************************************************)
\* C2: for every finite Json value whose strings and keys hold no control
\* character, parsing the text of stringify succeeds and gives the value back.
C2_RoundTrip ==
    pc = "rt_done" => (parsed.ok /\ parsed.val = rt_v)

\* the round trip of the one-character string holding a backslash has run:
\* the text is "\\" and the parse gives back a string of two characters
C2_Witness ==
    /\ pc = "rt_done"
    /\ rt_v = String(<<BACKSLASH>>)
    /\ line = <<QUOTE, BACKSLASH, BACKSLASH, QUOTE>>
    /\ parsed.ok
    /\ parsed.val = String(<<BACKSLASH, QUOTE>>)

(***************************************************************************)
(* Reference definitions of the claims: the texts of the responses as the  *)
(* specification writes them, the request shapes it names, and the JSON    *)
(* grammar of RFC 8259.  None of them is used by the model of the code.    *)
(***************************************************************************)
\* {"jsonrpc":"2.0","error":{"code":
Ref_error_head ==
    B(<<"{", "\"", "j", "s", "o", "n", "r", "p", "c", "\"", ":", "\"", "2", ".", "0", "\"",
        ",", "\"", "e", "r", "r", "o", "r", "\"", ":", "{", "\"", "c", "o", "d", "e", "\"",
        ":">>)

\* ,"message":"
Ref_message_head ==
    B(<<",", "\"", "m", "e", "s", "s", "a", "g", "e", "\"", ":", "\"">>)

\* "},"id":
Ref_error_id ==
    B(<<"\"", "}", ",", "\"", "i", "d", "\"", ":">>)

\* {"jsonrpc":"2.0","id":
Ref_result_head ==
    B(<<"{", "\"", "j", "s", "o", "n", "r", "p", "c", "\"", ":", "\"", "2", ".", "0", "\"",
        ",", "\"", "i", "d", "\"", ":">>)

\* ,"result":
Ref_result_mid ==
    B(<<",", "\"", "r", "e", "s", "u", "l", "t", "\"", ":">>)

Ref_digits == <<"0", "1", "2", "3", "4", "5", "6", "7", "8", "9">>

\* the decimal text of an integer
RECURSIVE Ref_nat(_)
Ref_nat(n) ==
    IF n < 10 THEN B(<<Ref_digits[n + 1]>>)
    ELSE Ref_nat(n \div 10) \o B(<<Ref_digits[(n % 10) + 1]>>)

Ref_int(n) == IF n < 0 THEN B(<<"-">>) \o Ref_nat(0 - n) ELSE Ref_nat(n)

\* the text of an id: null, a number, or a string of plain characters in quotes
Ref_id(id) ==
    IF id.t = "Null" THEN B(<<"n", "u", "l", "l">>)
    ELSE IF id.t = "Number" THEN Ref_int(id.n)
    ELSE B(<<"\"">>) \o id.s \o B(<<"\"">>)

\* text is an error response with this code and id, whatever its message
Ref_is_error(text, code, id) ==
    LET head == Ref_error_head \o Ref_int(code) \o Ref_message_head
        tail == Ref_error_id \o Ref_id(id) \o B(<<"}">>)
    IN  /\ Len(text) >= Len(head) + Len(tail)
        /\ SubSeq(text, 1, Len(head)) = head
        /\ SubSeq(text, Len(text) - Len(tail) + 1, Len(text)) = tail
        /\ \A k \in (Len(head) + 1)..(Len(text) - Len(tail)) :
              text[k] \notin {34, 92} /\ text[k] >= 32

\* the success response for this id and result
Ref_result(id, n) ==
    Ref_result_head \o Ref_id(id) \o Ref_result_mid \o Ref_int(n) \o B(<<"}">>)

\* the values of the members of the object o named key
Ref_members(o, key) == {o[k][2] : k \in {m \in 1..Len(o) : o[m][1] = key}}

\* the object o has exactly one member named key, of value v
Ref_has(o, key, v) == Ref_members(o, key) = {v}

\* j is a request object whose jsonrpc member is the string "2.0"
Ref_versioned(j) == j.t = "Object" /\ Ref_has(j.o, S_jsonrpc, String(S_2_0))

\* j is a notification: jsonrpc "2.0" and the id absent or Null
Ref_notification(j) ==
    /\ Ref_versioned(j)
    /\ Ref_members(j.o, S_id) \subseteq {Null}

\* j is a request with jsonrpc "2.0" and one id, a Number or a String
Ref_identified(j) ==
    /\ Ref_versioned(j)
    /\ \E id \in Ref_members(j.o, S_id) :
          Ref_members(j.o, S_id) = {id} /\ id.t \in {"Number", "String"}

\* the id of an identified request
Ref_id_of(j) == CHOOSE id \in Ref_members(j.o, S_id) : TRUE

\* the sum of a sequence of Numbers
RECURSIVE Ref_sum(_)
Ref_sum(a) == IF a = <<>> THEN 0 ELSE a[1].n + Ref_sum(Tail(a))

\* the bytes written for the last line read: from its read to the end of out
LastSegment == SubSeq(out, reads[Len(reads)].at + 1, Len(out))

\* the bytes written for the k-th line read: from its read to the next read
Segment(k) ==
    SubSeq(out, reads[k].at + 1, IF k < Len(reads) THEN reads[k + 1].at ELSE Len(out))

\* the line in hand has been handled, up to its newline
Handled == pc = "finish" /\ parsed.ok

\* handle_client is between two lines, or has returned
Quiescent == pc \in {"read", "done"}

(***************************************************************************)
(* The claims about one request line (SpecRpc).                            *)
(***************************************************************************)
\* the response a batch element gets on the path of a single request; an
\* element that is no Object gets the Invalid Request response
Ref_element(e) == handle_json_single(e)

\* the responses of the elements that are no notification, in element order
RECURSIVE Ref_answers(_)
Ref_answers(elems) ==
    IF elems = <<>> THEN <<>>
    ELSE IF Ref_element(elems[1]).notify THEN Ref_answers(Tail(elems))
    ELSE <<Ref_element(elems[1]).out>> \o Ref_answers(Tail(elems))

\* the texts ts, separated by commas
RECURSIVE Ref_commas(_)
Ref_commas(ts) ==
    IF Len(ts) = 1 THEN ts[1] ELSE ts[1] \o B(<<",">>) \o Ref_commas(Tail(ts))

\* "[" and the answers so far, or nothing when no element has answered yet
Ref_batch_open(elems) ==
    IF Ref_answers(elems) = <<>> THEN <<>>
    ELSE B(<<"[">>) \o Ref_commas(Ref_answers(elems))

\* the whole output of a batch
Ref_batch_text(elems) ==
    IF Ref_answers(elems) = <<>> THEN <<>>
    ELSE Ref_batch_open(elems) \o B(<<"]">>)

\* C1: a non-empty batch is processed element by element in array order; the
\* output is "[", the responses of exactly the elements that are no
\* notification, comma-joined in element order, and "]"; each response is the
\* text the element gets as a single request, and an element that is no Object
\* gets the Invalid Request response with id null.
C1_BatchInOrder ==
    /\ pc = "batch" =>
          /\ visited \o js = parsed.val.a
          /\ res = Ref_batch_open(visited)
          /\ LastSegment = <<>>
    /\ (Handled /\ IsBatch(parsed.val)) =>
          /\ visited = parsed.val.a
          /\ LastSegment = Ref_batch_text(parsed.val.a)
          /\ \A k \in 1..Len(parsed.val.a) :
                parsed.val.a[k].t # "Object" =>
                   /\ ~Ref_element(parsed.val.a[k]).notify
                   /\ Ref_is_error(Ref_element(parsed.val.a[k]).out, -32600, Null)

\* a batch whose first element is answered by an error and whose second by a
\* result has been handled
C1_Witness ==
    /\ Handled
    /\ IsBatch(parsed.val)
    /\ Len(parsed.val.a) = 2
    /\ Ref_is_error(Ref_element(parsed.val.a[1]).out, -32602, Number(7))
    /\ Ref_element(parsed.val.a[2]).out = Ref_result(Number(7), 5)
    /\ LastSegment # <<>>

\* C3: a single request object with jsonrpc "2.0" whose id is absent or Null
\* is a notification whatever its method and params: nothing is written for
\* it, no handler runs, and handle_client writes no newline.
C3_NotificationIsSilent ==
    (pc \in {"finish", "read", "done"} /\ parsed.ok /\ Ref_notification(parsed.val)) =>
        /\ LastSegment = <<>>
        /\ handlers = <<>>
        /\ (pc = "finish" => is_notify)

\* the line of a request with a Null id and an unknown method has been handled,
\* and handle_client has returned
C3_Witness ==
    /\ pc = "done"
    /\ parsed.ok
    /\ Ref_notification(parsed.val)
    /\ Ref_has(parsed.val.o, S_id, Null)
    /\ Ref_has(parsed.val.o, S_method, String(B(<<"s", "u", "m">>)))
    /\ out = <<>>

\* C4: for a non-empty batch whose elements are all notifications nothing is
\* written for the line: no bracket, no empty array, no newline.
C4_AllNotificationBatchIsSilent ==
    ( /\ pc \in {"batch", "finish", "read", "done"}
      /\ parsed.ok
      /\ IsBatch(parsed.val)
      /\ \A k \in 1..Len(parsed.val.a) : Ref_notification(parsed.val.a[k]) ) =>
        /\ LastSegment = <<>>
        /\ (pc = "finish" => is_notify)

\* a batch of two notifications has been handled, and handle_client has returned
C4_Witness ==
    /\ pc = "done"
    /\ parsed.ok
    /\ IsBatch(parsed.val)
    /\ Len(parsed.val.a) = 2
    /\ \A k \in 1..2 : Ref_notification(parsed.val.a[k])
    /\ out = <<>>

\* the object o has one params member, an Array of Numbers only
Ref_number_params(o) ==
    \E p \in Ref_members(o, S_params) :
        /\ Ref_members(o, S_params) = {p}
        /\ p.t = "Array"
        /\ \A k \in 1..Len(p.a) : p.a[k].t = "Number"

Ref_params_of(o) == (CHOOSE p \in Ref_members(o, S_params) : TRUE).a

\* C8: for a request with jsonrpc "2.0", a Number or String id and the method
\* add or subtract, the response is the result (the sum of the params, 0 for
\* none; params[0] - params[1]) when params is an Array of Numbers (of exactly
\* two for subtract), and otherwise one error response with code -32602 and
\* the id of the request, and nothing else.
C8_MethodResults ==
    (Handled /\ Ref_identified(parsed.val)) =>
        /\ Ref_has(parsed.val.o, S_method, String(S_add)) =>
              /\ ~is_notify
              /\ IF Ref_number_params(parsed.val.o)
                 THEN LastSegment = Ref_result(Ref_id_of(parsed.val),
                                               Ref_sum(Ref_params_of(parsed.val.o)))
                 ELSE Ref_is_error(LastSegment, -32602, Ref_id_of(parsed.val))
        /\ Ref_has(parsed.val.o, S_method, String(S_subtract)) =>
              /\ ~is_notify
              /\ IF Ref_number_params(parsed.val.o) /\ Len(Ref_params_of(parsed.val.o)) = 2
                 THEN LastSegment = Ref_result(Ref_id_of(parsed.val),
                                               Ref_params_of(parsed.val.o)[1].n
                                               - Ref_params_of(parsed.val.o)[2].n)
                 ELSE Ref_is_error(LastSegment, -32602, Ref_id_of(parsed.val))

\* subtract of [9, -4] has been answered with the result 13
C8_Witness ==
    /\ Handled
    /\ Ref_identified(parsed.val)
    /\ Ref_has(parsed.val.o, S_method, String(S_subtract))
    /\ Ref_has(parsed.val.o, S_params, Array(<<Number(9), Number(-4)>>))
    /\ LastSegment = Ref_result(Ref_id_of(parsed.val), 13)

\* j is an object whose jsonrpc member is absent, no String, or not "2.0"
Ref_bad_version(j) ==
    /\ j.t = "Object"
    /\ Cardinality(Ref_members(j.o, S_jsonrpc)) <= 1
    /\ String(S_2_0) \notin Ref_members(j.o, S_jsonrpc)

\* j is a request with jsonrpc "2.0" and one id, a Bool, an Array or an Object
Ref_bad_id(j) ==
    /\ Ref_versioned(j)
    /\ \E id \in Ref_members(j.o, S_id) :
          Ref_members(j.o, S_id) = {id} /\ id.t \in {"Bool", "Array", "Object"}

\* C9: the checks run in the order jsonrpc, id, method, params and the first
\* failure decides: a bad jsonrpc member gives one Invalid Request response
\* (-32600, id null) even without an id or with a Null id, and with a good
\* jsonrpc a Bool, Array or Object id gives the same response whatever the
\* method and params are.
C9_InvalidRequestFirst ==
    (Handled /\ (Ref_bad_version(parsed.val) \/ Ref_bad_id(parsed.val))) =>
        /\ ~is_notify
        /\ handlers = <<>>
        /\ Ref_is_error(LastSegment, -32600, Null)

\* a request without jsonrpc and without id has been answered
C9_Witness ==
    /\ Handled
    /\ parsed.val.t = "Object"
    /\ Ref_members(parsed.val.o, S_jsonrpc) = {}
    /\ Ref_members(parsed.val.o, S_id) = {}
    /\ Ref_is_error(LastSegment, -32600, Null)

\* the object o has no method member that names add or subtract
Ref_no_method(o) ==
    /\ Cardinality(Ref_members(o, S_method)) <= 1
    /\ Ref_members(o, S_method) \cap {String(S_add), String(S_subtract)} = {}

\* C10: for a request with jsonrpc "2.0" and a Number or String id whose
\* method is absent, no String, or neither "add" nor "subtract", exactly one
\* error response with code -32601 and the id of the request is written, and
\* no method handler runs.
C10_MethodNotFound ==
    (Handled /\ Ref_identified(parsed.val) /\ Ref_no_method(parsed.val.o)) =>
        /\ ~is_notify
        /\ handlers = <<>>
        /\ Ref_is_error(LastSegment, -32601, Ref_id_of(parsed.val))

\* a request with the id "a" and a Number as method has been answered
C10_Witness ==
    /\ Handled
    /\ Ref_identified(parsed.val)
    /\ Ref_id_of(parsed.val) = String(B(<<"a">>))
    /\ Ref_has(parsed.val.o, S_method, Number(5))
    /\ Ref_is_error(LastSegment, -32601, String(B(<<"a">>)))

(***************************************************************************)
(* The JSON grammar of RFC 8259, as a recognizer: an operator returns the  *)
(* position after the construct that starts at position i, or -1.          *)
(***************************************************************************)
Rfc_at(s, i) == IF i < Len(s) THEN s[i + 1] ELSE -1

\* ws: space, horizontal tab, line feed, carriage return
RECURSIVE Rfc_skip(_, _)
Rfc_skip(s, i) == IF Rfc_at(s, i) \in {32, 9, 10, 13} THEN Rfc_skip(s, i + 1) ELSE i

RECURSIVE Rfc_digits_end(_, _)
Rfc_digits_end(s, i) == IF Rfc_at(s, i) \in 48..57 THEN Rfc_digits_end(s, i + 1) ELSE i

\* one or more digits at i
Rfc_digits1_end(s, i) == IF Rfc_digits_end(s, i) > i THEN Rfc_digits_end(s, i) ELSE -1

\* exp = e [ minus / plus ] 1*DIGIT, optional
Rfc_exp_end(s, i) ==
    IF i < 0 THEN -1
    ELSE IF Rfc_at(s, i) \notin {101, 69} THEN i
    ELSE IF Rfc_at(s, i + 1) \in {43, 45} THEN Rfc_digits1_end(s, i + 2)
    ELSE Rfc_digits1_end(s, i + 1)

\* frac = decimal-point 1*DIGIT, optional, then the exp
Rfc_frac_end(s, i) ==
    IF Rfc_at(s, i) = 46 THEN Rfc_exp_end(s, Rfc_digits1_end(s, i + 1))
    ELSE Rfc_exp_end(s, i)

\* int = zero / ( digit1-9 *DIGIT )
Rfc_int_end(s, i) ==
    IF Rfc_at(s, i) = 48 THEN Rfc_frac_end(s, i + 1)
    ELSE IF Rfc_at(s, i) \in 49..57 THEN Rfc_frac_end(s, Rfc_digits_end(s, i))
    ELSE -1

\* number = [ minus ] int [ frac ] [ exp ]
Rfc_number_end(s, i) ==
    IF Rfc_at(s, i) = 45 THEN Rfc_int_end(s, i + 1) ELSE Rfc_int_end(s, i)

Rfc_hex(c) == c \in (48..57) \cup (65..70) \cup (97..102)

\* the rest of a string, from the byte after its opening quotation mark
RECURSIVE Rfc_string_end(_, _)
Rfc_string_end(s, i) ==
    IF Rfc_at(s, i) < 32 THEN -1
    ELSE IF Rfc_at(s, i) = 34 THEN i + 1
    ELSE IF Rfc_at(s, i) # 92 THEN Rfc_string_end(s, i + 1)
    ELSE IF Rfc_at(s, i + 1) \in {34, 92, 47, 98, 102, 110, 114, 116}
    THEN Rfc_string_end(s, i + 2)
    ELSE IF Rfc_at(s, i + 1) = 117 /\ \A k \in 2..5 : Rfc_hex(Rfc_at(s, i + k))
    THEN Rfc_string_end(s, i + 6)
    ELSE -1

RECURSIVE Rfc_value_end(_, _)
RECURSIVE Rfc_elements_end(_, _)
RECURSIVE Rfc_members_end(_, _)

\* after an element and its ws: the end of the array, or a comma and more elements
Rfc_array_next(s, i) ==
    IF Rfc_at(s, i) = 93 THEN i + 1
    ELSE IF Rfc_at(s, i) = 44 THEN Rfc_elements_end(s, Rfc_skip(s, i + 1))
    ELSE -1

Rfc_after_element(s, e) == IF e < 0 THEN -1 ELSE Rfc_array_next(s, Rfc_skip(s, e))

\* value *( value-separator value ) end-array
Rfc_elements_end(s, i) == Rfc_after_element(s, Rfc_value_end(s, i))

\* after a member and its ws: the end of the object, or a comma and more members
Rfc_object_next(s, i) ==
    IF Rfc_at(s, i) = 125 THEN i + 1
    ELSE IF Rfc_at(s, i) = 44 THEN Rfc_members_end(s, Rfc_skip(s, i + 1))
    ELSE -1

Rfc_after_member(s, e) == IF e < 0 THEN -1 ELSE Rfc_object_next(s, Rfc_skip(s, e))

\* the name-separator at i, then the value of the member
Rfc_colon(s, i) ==
    IF Rfc_at(s, i) # 58 THEN -1
    ELSE Rfc_after_member(s, Rfc_value_end(s, Rfc_skip(s, i + 1)))

Rfc_after_key(s, e) == IF e < 0 THEN -1 ELSE Rfc_colon(s, Rfc_skip(s, e))

\* member *( value-separator member ) end-object; member = string name-separator value
Rfc_members_end(s, i) ==
    IF Rfc_at(s, i) # 34 THEN -1 ELSE Rfc_after_key(s, Rfc_string_end(s, i + 1))

\* begin-array [ elements ] end-array, from the position after the bracket and ws
Rfc_array_end(s, i) == IF Rfc_at(s, i) = 93 THEN i + 1 ELSE Rfc_elements_end(s, i)

\* begin-object [ members ] end-object, from the position after the brace and ws
Rfc_object_end(s, i) == IF Rfc_at(s, i) = 125 THEN i + 1 ELSE Rfc_members_end(s, i)

Rfc_literal_end(s, i, word) ==
    IF starts_with(SubSeq(s, i + 1, Len(s)), word) THEN i + Len(word) ELSE -1

\* value = false / null / true / object / array / number / string
Rfc_value_end(s, i) ==
    IF Rfc_at(s, i) = 110 THEN Rfc_literal_end(s, i, B(<<"n", "u", "l", "l">>))
    ELSE IF Rfc_at(s, i) = 116 THEN Rfc_literal_end(s, i, B(<<"t", "r", "u", "e">>))
    ELSE IF Rfc_at(s, i) = 102 THEN Rfc_literal_end(s, i, B(<<"f", "a", "l", "s", "e">>))
    ELSE IF Rfc_at(s, i) = 34 THEN Rfc_string_end(s, i + 1)
    ELSE IF Rfc_at(s, i) = 91 THEN Rfc_array_end(s, Rfc_skip(s, i + 1))
    ELSE IF Rfc_at(s, i) = 123 THEN Rfc_object_end(s, Rfc_skip(s, i + 1))
    ELSE Rfc_number_end(s, i)

Rfc_document(s, e) == e >= 0 /\ Rfc_skip(s, e) = Len(s)

\* JSON-text = ws value ws
Rfc_valid(s) == Rfc_document(s, Rfc_value_end(s, Rfc_skip(s, 0)))

(***************************************************************************)
(* The claims about a connection (Spec).                                   *)
(***************************************************************************)
\* seg is one response line: one JSON object or array with no line break in
\* it, followed by one newline
Ref_response_line(seg) ==
    /\ Len(seg) >= 3
    /\ seg[Len(seg)] = 10
    /\ \A k \in 1..(Len(seg) - 1) : seg[k] \notin {10, 13}
    /\ seg[1] \in {Ord("{"), Ord("[")}
    /\ Rfc_valid(SubSeq(seg, 1, Len(seg) - 1))

\* the k-th line read has been handled to its end
Finished(k) == k < Len(reads) \/ Quiescent

Ref_answer_complete ==
    \/ LastSegment = <<>>
    \/ /\ out[Len(out)] = 10
       /\ Cardinality({k \in 1..Len(LastSegment) : LastSegment[k] = 10}) = 1

\* C6: handle_client reads a line only between two lines, when the whole
\* response of the line before it (text and newline), if it has one, is
\* written; what is written is never changed afterwards, so the output lines
\* are in the order of the input lines that produced them.
C6_ResponseBeforeNextRead ==
    [][ /\ Len(reads') > Len(reads) =>
              /\ pc = "read"
              /\ js = <<>>
              /\ out' = out
              /\ (Len(reads) > 0 => Ref_answer_complete)
        /\ Len(out') >= Len(out)
        /\ SubSeq(out', 1, Len(out)) = out ]_vars

\* a second line has been read after the response of the first was written,
\* and has been answered in its turn
C6_Witness ==
    /\ Quiescent
    /\ Len(reads) = 2
    /\ reads[1].at = 0
    /\ reads[2].at > 0
    /\ Len(out) > reads[2].at

\* seg is the Parse error response with id null and its newline
Ref_parse_error_line(seg) ==
    /\ Len(seg) > 1
    /\ seg[Len(seg)] = 10
    /\ Ref_is_error(SubSeq(seg, 1, Len(seg) - 1), -32700, Null)

\* C7: every input line (blank lines aside) whose text is no valid JSON
\* document is answered by exactly one line, the error response with code
\* -32700 and id null, and handle_client goes on with the following line.
C7_InvalidJsonGetsParseError ==
    /\ pc # "panic"
    /\ \A k \in 1..Len(reads) :
          (Finished(k) /\ reads[k].line # <<>> /\ ~Rfc_valid(reads[k].line)) =>
              Ref_parse_error_line(Segment(k))

\* a line that opens a string and never closes it has been answered, and the
\* answer is the Invalid Request response, not the Parse error response
C7_Witness ==
    \E k \in 1..Len(reads) :
        /\ Finished(k)
        /\ reads[k].line = <<QUOTE, 97, 98, 99>>
        /\ ~Rfc_valid(reads[k].line)
        /\ Len(Segment(k)) > 1
        /\ Ref_is_error(SubSeq(Segment(k), 1, Len(Segment(k)) - 1), -32600, Null)

(***************************************************************************)
(* C11: the empty batch.                                                   *)
(***************************************************************************)
\* C11: for the empty Array handle_json writes exactly one Invalid Request
\* error object (code -32600, id null) and no array, reports no notification,
\* and handle_client ends the line with one newline.
C11_EmptyBatchIsInvalidRequest ==
    (pc \in {"finish", "read", "done"} /\ parsed.ok /\ parsed.val = Array(<<>>)) =>
        /\ pc = "finish" =>
              /\ ~is_notify
              /\ Ref_is_error(LastSegment, -32600, Null)
        /\ pc \in {"read", "done"} =>
              /\ Len(LastSegment) > 1
              /\ LastSegment[Len(LastSegment)] = 10
              /\ Ref_is_error(SubSeq(LastSegment, 1, Len(LastSegment) - 1), -32600, Null)

\* the line [] has been answered and handle_client has returned
C11_Witness ==
    /\ pc = "done"
    /\ reads = << [line |-> B(<<"[", "]">>), at |-> 0] >>
    /\ parsed.ok
    /\ parsed.val = Array(<<>>)
    /\ out[1] = Ord("{")
    /\ out[Len(out)] = 10

(***************************************************************************)
(* C12: objects with repeated member names.                                *)
(***************************************************************************)
\* the members of the generated request objects, first occurrences
DupVersions == {String(S_2_0), String(B(<<"1", ".", "0">>))}
DupIds == {Number(7), String(B(<<"a">>)), Null}
DupMethods == {String(S_add), String(S_subtract), String(B(<<"s", "u", "m">>))}
DupParams == {Array(<<Number(9), Number(-4)>>), Array(<<Number(9)>>)}

\* a later member that repeats one of the four names, or none
DupExtras ==
    {<<>>}
    \cup {<< <<S_jsonrpc, v>> >> : v \in DupVersions}
    \cup {<< <<S_id, v>> >> : v \in DupIds \cup {Bool(TRUE)}}
    \cup {<< <<S_method, v>> >> : v \in DupMethods}
    \cup {<< <<S_params, v>> >> : v \in DupParams \cup {Number(3)}}

\* request objects in which one member name occurs a second time
DupRequests ==
    {Object(<< <<S_jsonrpc, v>>, <<S_id, i>>, <<S_method, m>>, <<S_params, p>> >> \o x) :
        v \in DupVersions, i \in DupIds, m \in DupMethods, p \in DupParams, x \in DupExtras}

\* {"a":1,"a":2}
DupExample ==
    B(<<"{", "\"", "a", "\"", ":", "1", ",", "\"", "a", "\"", ":", "2", "}">>)

\* the lines of the clients that repeat member names: single requests, two
\* batches of such requests, the example of the specification, and a line
\* that breaks off after a repeated name
DupLines ==
    {stringify(j) : j \in DupRequests}
    \cup {stringify(Array(<<
            Object(<< <<S_jsonrpc, String(S_2_0)>>, <<S_id, Number(7)>>,
                      <<S_method, String(S_add)>>, <<S_params, Array(<<Number(9)>>)>>,
                      <<S_id, Null>>, <<S_params, Number(3)>> >>),
            Object(<< <<S_jsonrpc, String(S_2_0)>>, <<S_id, Null>>,
                      <<S_method, String(S_add)>>, <<S_id, Number(7)>> >>) >>)),
          stringify(Array(<<
            Object(<< <<S_jsonrpc, String(S_2_0)>>, <<S_jsonrpc, Number(2)>> >>) >>)),
          DupExample,
          B(<<"{", "\"", "a", "\"", ":", "1", ",", "\"", "a", "\"", "}">>)}

\* a client that sends one line with repeated member names and closes the connection
InitDup == \E l \in DupLines : InitWith(<<l>>)

SpecDup == InitDup /\ [][Next]_vars

\* the members of o without those whose name occurs earlier in o
Ref_first_only(o) ==
    SelectSeq([k \in 1..Len(o) |-> [m |-> o[k], first |-> \A h \in 1..(k - 1) : o[h][1] # o[k][1]]],
              LAMBDA e : e.first)

RECURSIVE Ref_first_members(_)
Ref_first_members(es) ==
    IF es = <<>> THEN <<>> ELSE <<es[1].m>> \o Ref_first_members(Tail(es))

\* the value j with the later occurrences of every member name removed from
\* it and from the elements of a batch
Ref_shadowed(j) ==
    IF j.t = "Object" THEN Object(Ref_first_members(Ref_first_only(j.o)))
    ELSE IF j.t = "Array"
    THEN Array([k \in 1..Len(j.a) |->
                  IF j.a[k].t = "Object"
                  THEN Object(Ref_first_members(Ref_first_only(j.a[k].o)))
                  ELSE j.a[k]])
    ELSE j

\* the value of the first member of o named key
Ref_first_value(o, key) ==
    o[CHOOSE k \in 1..Len(o) : o[k][1] = key /\ \A h \in 1..(k - 1) : o[h][1] # key][2]

\* C12: the parser stores every member of an object in input order, repeated
\* names included; get returns the value of the first member with the name;
\* and a request that repeats a member name is answered as the request without
\* the later occurrences is.
C12_FirstOccurrenceWins ==
    /\ (pc \in {"handle", "batch", "finish"} /\ parsed.ok) =>
          /\ stringify(parsed.val) = line
          /\ line = DupExample =>
                parsed.val = Object(<< <<B(<<"a">>), Number(1)>>, <<B(<<"a">>), Number(2)>> >>)
          /\ parsed.val.t = "Object" =>
                \A k \in 1..Len(parsed.val.o) :
                    /\ get(parsed.val.o, parsed.val.o[k][1]).some
                    /\ get(parsed.val.o, parsed.val.o[k][1]).v
                          = Ref_first_value(parsed.val.o, parsed.val.o[k][1])
    /\ (Handled /\ ~IsBatch(parsed.val)) =>
          /\ LastSegment = handle_json_single(Ref_shadowed(parsed.val)).out
          /\ is_notify = handle_json_single(Ref_shadowed(parsed.val)).notify
    /\ (Handled /\ IsBatch(parsed.val)) =>
          LastSegment = Ref_batch_text(Ref_shadowed(parsed.val).a)

\* a request whose first id is 7 and whose second id is true has been answered
\* with the result of add for the id 7
C12_Witness ==
    /\ Handled
    /\ parsed.val.t = "Object"
    /\ Len(parsed.val.o) = 5
    /\ parsed.val.o[2] = <<S_id, Number(7)>>
    /\ parsed.val.o[5] = <<S_id, Bool(TRUE)>>
    /\ parsed.val.o[3] = <<S_method, String(S_add)>>
    /\ parsed.val.o[4] = <<S_params, Array(<<Number(9), Number(-4)>>)>>
    /\ parsed.val.o[1] = <<S_jsonrpc, String(S_2_0)>>
    /\ LastSegment = Ref_result(Number(7), 5)

(***************************************************************************)
(* C13: the escaping rule, for String values and Object keys.              *)
(***************************************************************************)
Ref_hex == <<"0", "1", "2", "3", "4", "5", "6", "7", "8", "9", "A", "B", "C", "D", "E", "F">>

\* the escaping rule for one byte: '"' and '\' behind a backslash, the short
\* escapes, \u00XX with uppercase hex below 0x20, every other byte unchanged
Ref_escape_byte(c) ==
    CASE c = 34 -> B(<<"\\", "\"">>)
      [] c = 92 -> B(<<"\\", "\\">>)
      [] c = 8 -> B(<<"\\", "b">>)
      [] c = 12 -> B(<<"\\", "f">>)
      [] c = 10 -> B(<<"\\", "n">>)
      [] c = 13 -> B(<<"\\", "r">>)
      [] c = 9 -> B(<<"\\", "t">>)
      [] c < 32 /\ c \notin {8, 9, 10, 12, 13} ->
            B(<<"\\", "u", "0", "0", Ref_hex[(c \div 16) + 1], Ref_hex[(c % 16) + 1]>>)
      [] OTHER -> <<c>>

\* a string literal: the escaped bytes of s between two quotes
RECURSIVE Ref_escaped(_)
Ref_escaped(s) == IF s = <<>> THEN <<>> ELSE Ref_escape_byte(s[1]) \o Ref_escaped(Tail(s))

Ref_literal(s) == B(<<"\"">>) \o Ref_escaped(s) \o B(<<"\"">>)

\* the text of a value whose strings and keys are all written by the rule
RECURSIVE Ref_stringify(_)
RECURSIVE Ref_elements_text(_)
RECURSIVE Ref_members_text(_)
Ref_stringify(j) ==
    CASE j.t = "Null" -> B(<<"n", "u", "l", "l">>)
      [] j.t = "Bool" -> IF j.b THEN B(<<"t", "r", "u", "e">>) ELSE B(<<"f", "a", "l", "s", "e">>)
      [] j.t = "Number" -> Ref_int(j.n)
      [] j.t = "String" -> Ref_literal(j.s)
      [] j.t = "Array" -> B(<<"[">>) \o Ref_elements_text(j.a) \o B(<<"]">>)
      [] j.t = "Object" -> B(<<"{">>) \o Ref_members_text(j.o) \o B(<<"}">>)

Ref_elements_text(a) ==
    IF a = <<>> THEN <<>>
    ELSE Ref_stringify(a[1])
         \o (IF Len(a) > 1 THEN B(<<",">>) \o Ref_elements_text(Tail(a)) ELSE <<>>)

Ref_members_text(o) ==
    IF o = <<>> THEN <<>>
    ELSE Ref_literal(o[1][1]) \o B(<<":">>) \o Ref_stringify(o[1][2])
         \o (IF Len(o) > 1 THEN B(<<",">>) \o Ref_members_text(Tail(o)) ELSE <<>>)

\* C13: stringify writes every string, String values and Object keys alike,
\* by the escaping rule, so that no string literal of the text holds a raw
\* control character or an unescaped quote.
C13_KeysAndValuesEscaped ==
    pc \in {"rt_text", "rt_done"} => line = Ref_stringify(rt_v)

\* the object with the one-character key '"' and the value null has been
\* written as {""":null}, the quote of the key unescaped
C13_Witness ==
    /\ pc = "rt_text"
    /\ rt_v = Object(<< <<B(<<"\"">>), Null>> >>)
    /\ line = B(<<"{", "\"", "\"", "\"", ":", "n", "u", "l", "l", "}">>)
    /\ line # Ref_stringify(rt_v)

(***************************************************************************)
(* The parser on arbitrary texts.                                          *)
(***************************************************************************)
\* the number of pieces of a generated text
MaxPieces == 4

\* the pieces of the generated texts: the quote, the backslash, 'u', the
\* letters n and l, the hexadecimal digits 1 and d, the brackets, the braces,
\* the comma, the colon and the two-byte character U+00E9
ParsePieces ==
    {<<QUOTE>>, <<BACKSLASH>>, B(<<"u">>), B(<<"n">>), B(<<"l">>), B(<<"1">>), B(<<"d">>),
     B(<<"[">>), B(<<"]">>), B(<<"{">>), B(<<"}">>), B(<<",">>), B(<<":">>), <<195, 169>>}

\* longer texts: \u escapes (one unit, a surrogate pair, a lone surrogate, two
\* low surrogates, a sign in the digits, too few digits, a character of two
\* bytes among the digits), a key that does not start with a quote, an object
\* that ends after a comma, an object that ends after white space, a key
\* position that holds a character of two bytes
ParseCases ==
    { B(<<"\"", "\\", "u", "0", "0", "e", "9", "\"">>),
      B(<<"\"", "\\", "u", "d", "8", "3", "d", "\\", "u", "d", "e", "0", "0", "\"">>),
      B(<<"\"", "\\", "u", "d", "8", "3", "d", "\"">>),
      B(<<"\"", "\\", "u", "d", "8", "3", "d", "\\", "u", "1", "\"">>),
      B(<<"\"", "\\", "u", "d", "8", "3", "d", "\\", "u", "0", "0", "4", "1", "\"">>),
      B(<<"\"", "\\", "u", "d", "c", "0", "0", "\\", "u", "d", "c", "0", "0", "\"">>),
      B(<<"\"", "\\", "u", "+", "0", "4", "1", "\"">>),
      B(<<"\"", "\\", "u", "1", "2">>),
      B(<<"\"", "\\", "u", "0", "0">>) \o <<195, 169>> \o B(<<"\"">>),
      B(<<"\"", "\\", "u", "d", "8", "3", "d", "\\", "u", "0", "0">>) \o <<195, 169>>,
      B(<<"{", "u", "\"", ":", "1", "}">>),
      B(<<"{", "\"", "\"", ":", "1", ",">>),
      B(<<"{", " ">>),
      B(<<"[", "1", ",", "{", "\"", "n", "\"", ":", "n", "u", "l", "l", "}", "]">>),
      B(<<"{">>) \o <<195, 169>> \o B(<<"\"", ":", "1", "}">>) }

\* the number of escapes of a generated string literal
MaxEscapes == 2

\* the string literals made of two-character escapes only
EscapeLiterals ==
    {<<QUOTE>> \o Concat([k \in 1..Len(es) |-> <<BACKSLASH, es[k]>>]) \o <<QUOTE>> :
        es \in SeqsOf(SimpleEscapes, 0, MaxEscapes)}

\* the texts the parser is applied to
ParseTexts ==
    {Concat(ps) : ps \in SeqsOf(ParsePieces, 0, MaxPieces)} \cup ParseCases \cup EscapeLiterals

InitParse ==
    /\ line \in ParseTexts
    /\ pc = "p_text"
    /\ input = <<>>
    /\ parsed = NoResult
    /\ js = <<>>
    /\ res = <<>>
    /\ is_first = TRUE
    /\ is_notify = FALSE
    /\ out = <<>>
    /\ reads = <<>>
    /\ visited = <<>>
    /\ handlers = <<>>
    /\ rt_v = Null
    /\ io_err = FALSE
    /\ incoming = <<>>
    /\ stream = Connection(0, TRUE)

\* Json::parse_with_trailing_whitespace on the text; a panic unwinds out of it
ParseText ==
    /\ pc = "p_text"
    /\ parsed' = parse_with_trailing_whitespace(line)
    /\ pc' = IF ~parsed'.ok /\ parsed'.panic THEN "p_panic" ELSE "p_done"
    /\ UNCHANGED <<input, line, js, res, is_first, is_notify, out, reads, visited,
                   handlers, rt_v, io_err,
                   incoming, stream>>

NextParse == ParseText

SpecParse == InitParse /\ [][NextParse]_vars

(***************************************************************************)
(* C14: the two-character escapes.                                         *)
(***************************************************************************)
\* the character an escape letter denotes
Ref_denotes(c) ==
    CASE c = 34 -> 34
      [] c = 92 -> 92
      [] c = 47 -> 47
      [] c = 98 -> 8
      [] c = 102 -> 12
      [] c = 110 -> 10
      [] c = 114 -> 13
      [] c = 116 -> 9

\* s is a string literal made of two-character escapes only: two quotes, and
\* between them pairs of a backslash and one of " \ / b f n r t
Ref_escape_literal(s) ==
    /\ Len(s) >= 2
    /\ Len(s) % 2 = 0
    /\ s[1] = 34
    /\ s[Len(s)] = 34
    /\ \A k \in 1..((Len(s) - 2) \div 2) :
          s[2 * k] = 92 /\ s[2 * k + 1] \in {34, 92, 47, 98, 102, 110, 114, 116}

\* the string such a literal denotes: one character for each escape
Ref_escapes_decoded(s) == [k \in 1..((Len(s) - 2) \div 2) |-> Ref_denotes(s[2 * k + 1])]

\* C14: a string literal made of n two-character escapes parses to the string
\* of the n characters the escapes denote: each escape consumes its two input
\* characters and contributes one character.
C14_EscapeConsumesBoth ==
    (pc \in {"p_done", "p_panic"} /\ Ref_escape_literal(line)) =>
        /\ parsed.ok
        /\ parsed.val = String(Ref_escapes_decoded(line))

\* the literal "\n" has been parsed to a string of two characters, the line
\* feed and the letter n
C14_Witness ==
    /\ pc = "p_done"
    /\ line = B(<<"\"", "\\", "n", "\"">>)
    /\ Ref_escape_literal(line)
    /\ parsed.ok
    /\ parsed.val = String(<<10, 110>>)

(***************************************************************************)
(* C15: string literals and keys that are not delimited by quotes.         *)
(***************************************************************************)
\* a quote that is not escaped occurs in s at or after position i (0-based)
RECURSIVE Ref_closing_quote(_, _)
Ref_closing_quote(s, i) ==
    IF i >= Len(s) THEN FALSE
    ELSE IF s[i + 1] = 34 THEN TRUE
    ELSE IF s[i + 1] = 92 THEN Ref_closing_quote(s, i + 2)
    ELSE Ref_closing_quote(s, i + 1)

\* s starts with a string literal that is still open at the end of s
Ref_open_string(s) ==
    /\ Len(s) >= 1
    /\ s[1] = 34
    /\ ~Ref_closing_quote(s, 1)

\* s starts an object whose first member does not start with a quote
Ref_unquoted_key(s) ==
    /\ Len(s) >= 2
    /\ s[1] = 123
    /\ s[2] \notin {34, 125, 32, 9, 10, 12, 13}

\* C15: the parse of a text whose string literal is still open at the end of
\* the input, or whose object member does not start with a quote at the key
\* position, is a ParseError.
C15_StringsAreDelimited ==
    (pc \in {"p_done", "p_panic"} /\ (Ref_open_string(line) \/ Ref_unquoted_key(line))) =>
        (~parsed.ok /\ ~parsed.panic)

\* the text {u":1} has been parsed to the object with the key "" and the
\* value 1: the byte at the key position was stepped over unread
C15_Witness ==
    /\ pc = "p_done"
    /\ line = B(<<"{", "u", "\"", ":", "1", "}">>)
    /\ Ref_unquoted_key(line)
    /\ parsed.ok
    /\ parsed.val = Object(<< <<(<<>>), Number(1)>> >>)

(***************************************************************************)
(* C16: the parser returns a value or an error, and never panics.          *)
(***************************************************************************)
\* C16: on every text the parse ends with a Json value or with a ParseError
\* whose position is between 0 and the length of the text; it reaches neither
\* unreachable!() nor a failed unwrap.
C16_ParserNeverPanics ==
    /\ pc # "p_panic"
    /\ (pc = "p_done" /\ ~parsed.ok) =>
          /\ ~parsed.panic
          /\ 0 <= parsed.pos
          /\ parsed.pos <= Len(line)

\* the parse of a text whose key position holds a character of two bytes has
\* panicked in String::from_utf8(v).unwrap()
C16_Witness ==
    /\ pc = "p_panic"
    /\ line = B(<<"{">>) \o <<195, 169>> \o B(<<"\"", ":", "1", "}">>)
    /\ ~parsed.ok
    /\ parsed.panic
    /\ parsed.reason = "from_utf8 unwrap"

(***************************************************************************)
(* The connection with reads and writes that can fail.                     *)
(***************************************************************************)
\* the lines of the clients whose connection can fail: a request, a
\* notification, a batch with two answers, a malformed line
IoLines ==
    { stringify(Request(<< <<S_id, Number(7)>> >>, S_add, <<Number(9), Number(-4)>>)),
      stringify(Request(<<>>, S_add, <<Number(9)>>)),
      stringify(Array(<<Number(1), Request(<< <<S_id, Number(7)>> >>, S_add, <<>>)>>)),
      B(<<"{">>) }

InitIo == \E lines \in SeqsOf(IoLines, 0, MaxLines) : InitWith(lines)

\* a write of bytes on the connection fails: write_all has written a proper
\* prefix of them, and the error is returned through every `?` up to the
\* caller of handle_client
WriteFails(bytes) ==
    /\ bytes # <<>>
    /\ \E n \in 0..(Len(bytes) - 1) : out' = out \o SubSeq(bytes, 1, n)
    /\ io_err' = TRUE
    /\ pc' = "error"

\* handle_client: `let line = line?` on an Err of buf.lines()
ReadFail ==
    /\ pc = "read"
    /\ io_err' = TRUE
    /\ pc' = "error"
    /\ UNCHANGED <<input, line, parsed, js, res, is_first, is_notify, out, reads, visited,
                   handlers, rt_v, incoming, stream>>

\* handle_client, the Err arm: the write of the Parse error response fails
ParseErrorResponseFail ==
    /\ pc = "handle"
    /\ ~parsed.ok
    /\ WriteFails(response_error(-32700, Null, Msg_parse_error))
    /\ UNCHANGED <<input, line, parsed, js, res, is_first, is_notify, reads, visited,
                   handlers, rt_v, incoming, stream>>

\* handle_json on a value that is no batch: the write of its response fails
HandleSingleFail ==
    /\ pc = "handle"
    /\ parsed.ok
    /\ ~IsBatch(parsed.val)
    /\ WriteFails(handle_json_single(parsed.val).out)
    /\ handlers' = IF handle_json_single(parsed.val).handler = "none" THEN handlers
                   ELSE Append(handlers, handle_json_single(parsed.val).handler)
    /\ UNCHANGED <<input, line, parsed, js, res, is_first, is_notify, reads, visited,
                   rt_v, incoming, stream>>

\* handle_json, after the for loop: writer.write_all(&res) or the write of "]" fails
BatchEndFail ==
    /\ pc = "batch"
    /\ js = <<>>
    /\ WriteFails(batch_finish(res, is_first).out)
    /\ UNCHANGED <<input, line, parsed, js, res, is_first, is_notify, reads, visited,
                   handlers, rt_v, incoming, stream>>

\* a mutant of WriteNewlineFail: the error of the write is dropped and the loop goes on
WriteNewlineFail_ignored ==
    /\ pc = "finish"
    /\ ~is_notify
    /\ io_err' = TRUE
    /\ pc' = "read"
    /\ UNCHANGED <<input, line, parsed, js, res, is_first, is_notify, out, reads, visited,
                   handlers, rt_v, incoming, stream>>

\* handle_client: the write of the newline fails
WriteNewlineFail ==
    /\ pc = "finish"
    /\ ~is_notify
    /\ WriteFails(<<10>>)
    /\ UNCHANGED <<input, line, parsed, js, res, is_first, is_notify, reads, visited,
                   handlers, rt_v, incoming, stream>>

NextIo ==
    \/ Next
    \/ ReadFail
    \/ ParseErrorResponseFail
    \/ HandleSingleFail
    \/ BatchEndFail
    \/ WriteNewlineFail

SpecIo == InitIo /\ [][NextIo]_vars

(***************************************************************************)
(* C17: an I/O error ends the connection.                                  *)
(***************************************************************************)
\* C17: when a read or a write on the connection fails, handle_client returns
\* the error at once; afterwards no line is read and no byte is written on the
\* connection, and the failed operation is not tried again.
C17_IoErrorEndsConnection ==
    [][ /\ io_err' => pc' = "error"
        /\ io_err => (pc' = "error" /\ UNCHANGED <<input, out, reads, io_err>>) ]_vars

\* the write of a response has failed half way while a line was still unread,
\* and handle_client has returned
C17_Witness ==
    /\ pc = "error"
    /\ io_err
    /\ input # <<>>
    /\ Len(reads) = 1
    /\ out # <<>>
    /\ out[Len(out)] # 10

(***************************************************************************)
(* C18: the answer to a line depends on the line alone.                    *)
(***************************************************************************)
\* a response text with its newline, or nothing for a notification
Ref_with_newline(notify, text) == IF notify THEN <<>> ELSE text \o <<10>>

\* what a connection that receives only the parsed value j writes for it
Ref_value_output(j) ==
    IF IsBatch(j) THEN Ref_with_newline(Ref_batch_text(j.a) = <<>>, Ref_batch_text(j.a))
    ELSE Ref_with_newline(handle_json_single(j).notify, handle_json_single(j).out)

\* what a connection writes for the result p of the parse of its only line:
\* nothing when the parse panics
Ref_parsed_output(p) ==
    IF p.ok THEN Ref_value_output(p.val)
    ELSE IF p.panic THEN <<>>
    ELSE response_error(-32700, Null, Msg_parse_error) \o <<10>>

\* the bytes written for the line l by a connection that receives no other line
Ref_line_output(l) ==
    IF trim(l) = <<>> THEN <<>> ELSE Ref_parsed_output(parse_with_trailing_whitespace(trim(l)))

\* C18: the bytes written in answer to a line are a function of the line
\* alone: wherever the line stands in the sequence of lines of a connection
\* and whatever was processed before it, they are the bytes a connection
\* writes that receives this line only.  This holds of the lines handled and,
\* when handle_client has ended, of the lines it has left unread.
C18_OutputDependsOnLineOnly ==
    /\ \A k \in 1..Len(reads) :
          Finished(k) => Segment(k) = Ref_line_output(reads[k].line)
    /\ pc \in {"done", "panic"} =>
          \A k \in 1..Len(input) : Ref_line_output(input[k]) = <<>>

\* the parse of the first line has panicked, and the second line, a request
\* that is answered when it is sent alone, is left unread and unanswered
C18_Witness ==
    /\ pc = "panic"
    /\ Len(reads) = 1
    /\ Len(input) = 1
    /\ Ref_line_output(input[1]) # <<>>
    /\ out = <<>>

(***************************************************************************)
(* The server: main accepts the connections of two clients.                *)
(***************************************************************************)
\* the lines of the two clients: a request, a notification, a batch with one
\* answer, a malformed line
MainLines ==
    { stringify(Request(<< <<S_id, Number(7)>> >>, S_add, <<Number(9), Number(-4)>>)),
      stringify(Request(<<>>, S_add, <<Number(9)>>)),
      stringify(Array(<<Number(1), Request(<<>>, S_add, <<>>)>>)),
      B(<<"{">>) }

\* the connection of the client c as listener.incoming() holds it: the lines
\* the client has sent on it, and whether the client then closes it
Pending(c, closes, lines) == [client |-> c, closes |-> closes, lines |-> lines]

\* main has bound the listener and two clients have connected, the client 1
\* first; each has sent up to MaxLines lines and then closes its connection or
\* leaves it open and silent
InitMain ==
    /\ \E l1 \in SeqsOf(MainLines, 0, MaxLines), l2 \in SeqsOf(MainLines, 0, MaxLines),
          c1 \in BOOLEAN, c2 \in BOOLEAN :
            incoming = <<Pending(1, c1, l1), Pending(2, c2, l2)>>
    /\ stream = Connection(0, TRUE)
    /\ pc = "accept"
    /\ input = <<>>
    /\ line = <<>>
    /\ parsed = NoResult
    /\ js = <<>>
    /\ res = <<>>
    /\ is_first = TRUE
    /\ is_notify = FALSE
    /\ out = <<>>
    /\ reads = <<>>
    /\ visited = <<>>
    /\ handlers = <<>>
    /\ rt_v = Null
    /\ io_err = FALSE

\* main: the for loop takes the next connection of listener.incoming() and
\* calls handle_client on it; it does so at its start and when the call of
\* handle_client on the connection before has returned Ok(())
Accept ==
    /\ pc \in {"accept", "done"}
    /\ incoming # <<>>
    /\ stream' = Connection(Head(incoming).client, Head(incoming).closes)
    /\ input' = Head(incoming).lines
    /\ incoming' = Tail(incoming)
    /\ pc' = "read"
    /\ out' = <<>>
    /\ reads' = <<>>
    /\ UNCHANGED <<line, parsed, js, res, is_first, is_notify, visited, handlers, rt_v,
                   io_err>>

NextMain == Accept \/ Next

SpecMain == InitMain /\ [][NextMain]_vars

(***************************************************************************)
(* C19: two connections.                                                   *)
(***************************************************************************)
\* handle_client waits for a line of a client that sends nothing more and
\* does not close its connection
Ref_read_never_completes == pc = "read" /\ input = <<>> /\ ~stream.closes

\* another client has connected and has sent lines that are not read yet
Ref_other_has_lines == incoming # <<>> /\ Head(incoming).lines # <<>>

\* C19: a connection whose next read never completes stalls only itself:
\* while it waits, the server can still take a step, and so the lines of the
\* other connection are read and answered.
C19_StalledReadStallsOnlyItself ==
    (Ref_read_never_completes /\ Ref_other_has_lines) => ENABLED NextMain

\* the client 1 has been answered and is silent, its connection open; the
\* client 2 has connected and sent a line, and its connection is not accepted
C19_Witness ==
    /\ Ref_read_never_completes
    /\ stream.client = 1
    /\ out # <<>>
    /\ Len(incoming) = 1
    /\ incoming[1].client = 2
    /\ incoming[1].lines # <<>>

(***************************************************************************)
(* C20: the error responses.                                               *)
(***************************************************************************)
\* Invalid params
Ref_msg_invalid_params ==
    B(<<"I", "n", "v", "a", "l", "i", "d", " ", "p", "a", "r", "a", "m", "s">>)

\* the four rows of the error code table
Ref_error_table ==
    { <<-32700, B(<<"P", "a", "r", "s", "e", " ", "e", "r", "r", "o", "r">>)>>,
      <<-32600, B(<<"I", "n", "v", "a", "l", "i", "d", " ", "R", "e", "q", "u", "e", "s",
                    "t">>)>>,
      <<-32601, B(<<"M", "e", "t", "h", "o", "d", " ", "n", "o", "t", " ", "f", "o", "u",
                    "n", "d">>)>>,
      <<-32602, Ref_msg_invalid_params>> }

\* the ids a response can carry: null, a number, a string
Ref_error_ids ==
    {Null} \cup {Number(n) : n \in -9..99}
           \cup {String(s) : s \in SeqsOf({Ord("a"), Ord("b"), Ord("1")}, 0, 2)}

\* {"jsonrpc":"2.0","error":{"code":<code>,"message":"<message>"},"id":<id>}
Ref_error(row, id) ==
    Ref_error_head \o Ref_int(row[1]) \o Ref_message_head \o row[2] \o Ref_error_id
        \o Ref_id(id) \o B(<<"}">>)

\* the bytes of text from the p-th on begin with piece
Ref_at(text, p, piece) ==
    /\ p + Len(piece) - 1 <= Len(text)
    /\ SubSeq(text, p, p + Len(piece) - 1) = piece

\* wherever an error response begins in text, it is an error response of a
\* row of rows
Ref_errors_from(text, rows) ==
    \A p \in 1..Len(text) :
        Ref_at(text, p, Ref_error_head) =>
            \E row \in rows, id \in Ref_error_ids : Ref_at(text, p, Ref_error(row, id))

\* C20: every error response written has the form
\* {"jsonrpc":"2.0","error":{"code":<int>,"message":<text>},"id":<id or null>}
\* with the members in this order, and its code and message are those of one
\* of the four rows of the error code table: (-32700, "Parse error"),
\* (-32600, "Invalid Request"), (-32601, "Method not found"),
\* (-32602, "Invalid params").
C20_ErrorResponsesFollowTable == Ref_errors_from(out, Ref_error_table)

\* subtract with one parameter has been answered by an error response with
\* the code -32602 and the id of the request
C20_Witness ==
    /\ Handled
    /\ Ref_identified(parsed.val)
    /\ Ref_has(parsed.val.o, S_method, String(S_subtract))
    /\ Ref_has(parsed.val.o, S_params, Array(<<Number(9)>>))
    /\ Ref_is_error(LastSegment, -32602, Ref_id_of(parsed.val))

=============================================================================
